---- MODULE Spec2Model ----
(***************************************************************************)
(* The two notebooks of the workshop as linear scripts run against the     *)
(* managed platform:                                                       *)
(*   - the churn workflow (XGBoost): upload, train, deploy, predict() in   *)
(*     mini-batches through the endpoint, threshold, confusion matrix;     *)
(*   - the experiment-tracking workflow (MNIST): bucket, dataset, tracker, *)
(*     experiment, one trial and one training job per hidden_channels      *)
(*     setting, analytics query, deployment of the best trial component.   *)
(* Scores are kept in tenths (0.3 is 3).  A CSV string is a sequence of    *)
(* tokens, a number or a separator.                                        *)
(***************************************************************************)
EXTENDS Integers, Sequences, FiniteSets

\* ---------------------------------------------------------------- bounds
MaxN == 4            \* rows of the test table
MaxRowsArg == 3      \* largest rows argument given to predict
MaxAccuracy == 3     \* test:accuracy values a training job may report, 1..MaxAccuracy
MaxTicks == 2        \* clock ticks that may pass outside time.sleep
TicksPerSecond == 2  \* resolution of the clock

\* ------------------------------------------------------- program constants
THRESHOLD == 3       \* 0.3, in tenths

SleepSeconds == 2    \* time.sleep(2)
Dropout == 2         \* 'dropout': 0.2, in tenths
KernelSize == 5      \* 'kernel_size': 5

HiddenChannels == <<2, 5, 10>>

Features == {1, 2, 3}
Labels == {0, 1}

VARIABLES
    wf,             \* which notebook runs: "churn" or "experiment"
    pc,             \* the statement the script is at
    trace,          \* the steps executed so far, in order
    errors,         \* the steps whose remote call raised, in order
    exception,      \* the step whose exception ended the script, or "none"
    now,            \* time.time(), in ticks
    xgb_predictor,  \* [endpoint, content_type, serializer]
    test_df,        \* the test table: a sequence of [label, features]
    data,           \* predict's data argument
    rows,           \* predict's rows argument
    split_array,    \* the chunks of np.array_split
    idx,            \* position of the for loop in split_array (1-based)
    requests,       \* payloads submitted to the endpoint, in order
    channel,        \* requests in flight to the endpoint
    replies,        \* replies in flight back to the caller
    predictions,    \* predict's accumulator string, then the global array
    result,         \* what predict returned
    predicted,      \* np.where(predictions > THRESHOLD, 1, 0)
    crosstab,       \* the confusion matrix: cell -> count
    s3_bucket,      \* experiment workflow: does the bucket exist
    i,              \* position of the training loop in HiddenChannels
    trials,         \* trials created, in order
    jobs,           \* training jobs created, in order
    components,     \* trial components known to the platform
    dataframe,      \* trial_component_analytics.dataframe(): component names
    best,           \* best_trial_component, model_data and env
    endpoint        \* the model deployed by the experiment workflow

churnVars == <<xgb_predictor, test_df, data, rows, split_array, idx, requests,
               channel, replies, predictions, result, predicted, crosstab>>
expVars == <<s3_bucket, i, trials, jobs, components, dataframe, best, endpoint>>
ctlVars == <<wf, pc, trace, errors, exception, now>>
vars == <<wf, pc, trace, errors, exception, now, xgb_predictor, test_df, data, rows,
          split_array, idx, requests, channel, replies, predictions, result,
          predicted, crosstab, s3_bucket, i, trials, jobs, components,
          dataframe, best, endpoint>>

\* ------------------------------------------------------------- helpers
Last(s) == s[Len(s)]

Min(a, b) == IF a < b THEN a ELSE b

RECURSIVE SumOver(_, _)
SumOver(f, S) ==
    IF S = {} THEN 0
    ELSE LET x == CHOOSE y \in S : TRUE IN f[x] + SumOver(f, S \ {x})

RECURSIVE Flatten(_)
Flatten(ss) == IF ss = <<>> THEN <<>> ELSE Head(ss) \o Flatten(Tail(ss))

Tables == UNION {[1..n -> [label : Labels, features : Features]] : n \in 0..MaxN}

\* ------------------------------------------------- CSV strings as tokens
Num(v) == [t |-> "num", v |-> v]
Sep == [t |-> "sep", v |-> 0]

\* The endpoint's text/csv response body: the scores separated by commas, the
\* format predict's ','.join and np.fromstring(sep=',') are written for; the
\* body for an empty payload is the empty string.
RECURSIVE CsvOfScores(_)
CsvOfScores(scores) ==
    IF scores = <<>> THEN <<>>
    ELSE IF Len(scores) = 1 THEN <<Num(scores[1])>>
    ELSE <<Num(scores[1]), Sep>> \o CsvOfScores(Tail(scores))

\* ','.join([predictions, response])
JoinNoSep(predictions_, response) == predictions_ \o response
JoinPrepend(predictions_, response) == response \o <<Sep>> \o predictions_
Join(predictions_, response) == predictions_ \o <<Sep>> \o response

\* predictions[1:]
SliceKeepAll(s) == s
SliceFrom1(s) == IF s = <<>> THEN <<>> ELSE Tail(s)

\* np.fromstring(s, sep=','): read a number, skip one separator, repeat; stop
\* at the end of the string, or (silently truncating) where no number or no
\* separator is found.
RECURSIVE ReadElements(_, _)
ReadElements(s, acc) ==
    IF s = <<>> THEN acc
    ELSE IF Head(s).t # "num" THEN acc
    ELSE IF Tail(s) = <<>> THEN Append(acc, Head(s).v)
    ELSE IF Head(Tail(s)).t # "sep" THEN Append(acc, Head(s).v)
    ELSE ReadElements(Tail(Tail(s)), Append(acc, Head(s).v))

fromstring(s) == ReadElements(s, <<>>)

\* --------------------------------------------------------- np.array_split
\* int(data.shape[0] / float(rows) + 1), rows > 0
NumSectionsNoPlus1(n, rows_) == n \div rows_
NumSectionsCeil(n, rows_) == (n + rows_ - 1) \div rows_
NumSections(n, rows_) == (n \div rows_) + 1

\* div_points of array_split: the first n % k sections hold n // k + 1 rows,
\* the others n // k.  DivPoint(n, k, j) is the number of rows before section j.
DivPointNoExtras(n, k, j) == (j - 1) * (n \div k)
DivPoint(n, k, j) == (j - 1) * (n \div k) + Min(j - 1, n % k)

array_split(ary, k) ==
    [j \in 1..k |-> SubSeq(ary, DivPoint(Len(ary), k, j) + 1,
                                Min(Len(ary), DivPoint(Len(ary), k, j + 1)))]

\* ------------------------------------------------------------ endpoint
\* The hosted model: one score per row, a function of the row's features.
ModelScore(features) == features + 1

Scores(payload) == [r \in 1..Len(payload) |-> ModelScore(payload[r])]

\* test_df.to_numpy()[:, 1:] and test_df.iloc[:, 0]
FirstColumn(df) == [r \in 1..Len(df) |-> df[r].label]
FeatureColumns(df) == [r \in 1..Len(df) |-> df[r].features]
LabelColumn(df) == [r \in 1..Len(df) |-> df[r].label]

\* np.where(predictions > THRESHOLD, 1, 0)
AboveOrEqual(score) == IF score >= THRESHOLD THEN 1 ELSE 0
Above(score) == IF score > THRESHOLD THEN 1 ELSE 0

where(arr) == [r \in 1..Len(arr) |-> Above(arr[r])]

\* pd.crosstab(index, columns): the number of rows in each (index, columns) cell
Cells == Labels \X {0, 1}
CountCell(index, columns, c) ==
    Cardinality({r \in 1..Len(index) : index[r] = c[1] /\ columns[r] = c[2]})

EmptyTable == [c \in Cells |-> 0]

\* ------------------------------------------------------------- control
\* A statement runs to its end and the script goes on with the next one.
Advance(step, next) ==
    /\ pc' = next
    /\ trace' = Append(trace, step)
    /\ UNCHANGED <<wf, errors, exception, now>>

\* The remote call of the running statement raises and nothing catches it:
\* the script ends there.
Propagate(step) ==
    /\ pc' = "failed"
    /\ errors' = Append(errors, step)
    /\ exception' = step
    /\ UNCHANGED <<wf, now>>

Raise(step) == Propagate(step) /\ trace' = Append(trace, step)

\* A local error (ZeroDivisionError, ValueError) ends the script.
LocalRaise(step) ==
    /\ pc' = "failed"
    /\ trace' = Append(trace, step)
    /\ exception' = step
    /\ UNCHANGED <<wf, errors, now>>

\* A statement whose only effect here is its remote call.
RemoteStep(at, step, next) ==
    /\ pc = at
    /\ \/ Advance(step, next)
       \/ Raise(step)

\* ------------------------------------------------------- churn workflow
\* session.default_bucket(), get_execution_role(), get_image_uri()
Setup ==
    /\ wf = "churn"
    /\ RemoteStep("setup", "setup", "upload_train")
    /\ UNCHANGED <<churnVars, expVars>>

UploadTrain ==
    /\ RemoteStep("upload_train", "upload_train", "upload_validation")
    /\ UNCHANGED <<churnVars, expVars>>

UploadValidation ==
    /\ RemoteStep("upload_validation", "upload_validation", "read_train")
    /\ UNCHANGED <<churnVars, expVars>>

\* pd.read_csv of the uploaded train.csv from S3
ReadTrainThenDeploy ==
    /\ RemoteStep("read_train", "read_train", "deploy")
    /\ UNCHANGED <<churnVars, expVars>>

ReadTrain ==
    /\ RemoteStep("read_train", "read_train", "fit")
    /\ UNCHANGED <<churnVars, expVars>>

\* xgb.fit(...) returns when the training job has completed
Fit ==
    /\ RemoteStep("fit", "fit", "deploy")
    /\ UNCHANGED <<churnVars, expVars>>

Deploy ==
    /\ pc = "deploy"
    /\ \/ /\ Advance("deploy", "configure")
          /\ xgb_predictor' = [xgb_predictor EXCEPT !.endpoint = "xgb-endpoint"]
       \/ /\ Raise("deploy")
          /\ UNCHANGED xgb_predictor
    /\ UNCHANGED <<test_df, data, rows, split_array, idx, requests, channel,
                   replies, predictions, result, predicted, crosstab, expVars>>

Configure ==
    /\ pc = "configure"
    /\ Advance("configure", "read_test")
    /\ xgb_predictor' = [xgb_predictor EXCEPT !.content_type = "text/csv",
                                              !.serializer = "csv_serializer"]
    /\ UNCHANGED <<test_df, data, rows, split_array, idx, requests, channel,
                   replies, predictions, result, predicted, crosstab, expVars>>

\* test_df = pd.read_csv('./DATA/test.csv')
ReadTest ==
    /\ pc = "read_test"
    /\ Advance("read_test", "predict")
    /\ test_df' \in Tables
    /\ UNCHANGED <<xgb_predictor, data, rows, split_array, idx, requests,
                   channel, replies, predictions, result, predicted, crosstab,
                   expVars>>

\* predictions = predict(test_df.to_numpy()[:, 1:]); the notebook passes the
\* default rows, the model every rows argument in 0..MaxRowsArg.  The call
\* evaluates np.array_split and sets predictions = ''.  With rows = 0 the
\* division data.shape[0] / float(rows) raises ZeroDivisionError.
PredictCallRowsAtLeast1 ==
    /\ pc = "predict"
    /\ \E r \in 0..MaxRowsArg :
        LET d == FeatureColumns(test_df)
            k == NumSections(Len(d), IF r = 0 THEN 1 ELSE r)
        IN  /\ rows' = r
            /\ data' = d
            /\ Advance("predict", "loop")
            /\ split_array' = array_split(d, k)
            /\ idx' = 1
            /\ predictions' = <<>>
    /\ UNCHANGED <<xgb_predictor, test_df, requests, channel, replies, result,
                   predicted, crosstab, expVars>>

PredictCall ==
    /\ pc = "predict"
    /\ \E r \in 0..MaxRowsArg :
        LET d == FeatureColumns(test_df)
            k == IF r = 0 THEN 0 ELSE NumSections(Len(d), r)
        IN  /\ rows' = r
            /\ data' = d
            /\ IF r = 0 \/ k <= 0
               THEN /\ LocalRaise("predict")
                    /\ UNCHANGED <<split_array, idx, predictions>>
               ELSE /\ Advance("predict", "loop")
                    /\ split_array' = array_split(d, k)
                    /\ idx' = 1
                    /\ predictions' = <<>>
    /\ UNCHANGED <<xgb_predictor, test_df, requests, channel, replies, result,
                   predicted, crosstab, expVars>>

\* xgb_predictor.predict(array): the request leaves and the caller blocks.
InvokeEndpointAsync ==
    /\ pc = "loop"
    /\ idx <= Len(split_array)
    /\ requests' = Append(requests, split_array[idx])
    /\ channel' = Append(channel, split_array[idx])
    /\ idx' = idx + 1
    /\ Advance("invoke", "loop")
    /\ UNCHANGED <<xgb_predictor, test_df, data, rows, split_array, replies,
                   predictions, result, predicted, crosstab, expVars>>

InvokeEndpointConsume ==
    /\ pc = "loop"
    /\ idx <= Len(split_array)
    /\ requests' = Append(requests, split_array[idx])
    /\ channel' = Append(channel, split_array[idx])
    /\ data' = SubSeq(data, Len(split_array[idx]) + 1, Len(data))
    /\ Advance("invoke", "await")
    /\ UNCHANGED <<xgb_predictor, test_df, rows, split_array, idx,
                   replies, predictions, result, predicted, crosstab, expVars>>

InvokeEndpoint ==
    /\ pc = "loop"
    /\ idx <= Len(split_array)
    /\ requests' = Append(requests, split_array[idx])
    /\ channel' = Append(channel, split_array[idx])
    /\ Advance("invoke", "await")
    /\ UNCHANGED <<xgb_predictor, test_df, data, rows, split_array, idx,
                   replies, predictions, result, predicted, crosstab, expVars>>

\* The endpoint answers the request with one score per row ...
EndpointServe ==
    /\ channel # <<>>
    /\ replies' = Append(replies, [ok |-> TRUE,
                                   body |-> CsvOfScores(Scores(Head(channel)))])
    /\ channel' = Tail(channel)
    /\ UNCHANGED <<ctlVars, xgb_predictor, test_df, data, rows, split_array,
                   idx, requests, predictions, result, predicted, crosstab,
                   expVars>>

\* ... or the call fails.
EndpointFault ==
    /\ channel # <<>>
    /\ replies' = Append(replies, [ok |-> FALSE, body |-> <<>>])
    /\ channel' = Tail(channel)
    /\ UNCHANGED <<ctlVars, xgb_predictor, test_df, data, rows, split_array,
                   idx, requests, predictions, result, predicted, crosstab,
                   expVars>>

\* predictions = ','.join([predictions, <response>.decode('utf-8')]); a failed
\* call raises out of predict.
ReceiveReplyRetry ==
    /\ pc = "await"
    /\ replies # <<>>
    /\ replies' = Tail(replies)
    /\ IF Head(replies).ok
       THEN /\ predictions' = Join(predictions, Head(replies).body)
            /\ idx' = idx + 1
            /\ pc' = "loop"
            /\ UNCHANGED <<wf, trace, errors, exception, now>>
       ELSE /\ pc' = "loop"
            /\ errors' = Append(errors, "invoke")
            /\ UNCHANGED <<wf, trace, exception, now, predictions, idx>>
    /\ UNCHANGED <<xgb_predictor, test_df, data, rows, split_array, requests,
                   channel, result, predicted, crosstab, expVars>>

ReceiveReply ==
    /\ pc = "await"
    /\ replies # <<>>
    /\ replies' = Tail(replies)
    /\ IF Head(replies).ok
       THEN /\ predictions' = Join(predictions, Head(replies).body)
            /\ idx' = idx + 1
            /\ pc' = "loop"
            /\ UNCHANGED <<wf, trace, errors, exception, now>>
       ELSE /\ Propagate("invoke")
            /\ UNCHANGED <<trace, predictions, idx>>
    /\ UNCHANGED <<xgb_predictor, test_df, data, rows, split_array, requests,
                   channel, result, predicted, crosstab, expVars>>

\* return np.fromstring(predictions[1:], sep=',')
PredictReturnEarly ==
    /\ pc = "loop"
    /\ idx >= Len(split_array)
    /\ result' = [returned |-> TRUE,
                  value |-> fromstring(SliceFrom1(predictions))]
    /\ Advance("return", "threshold")
    /\ UNCHANGED <<xgb_predictor, test_df, data, rows, split_array, idx,
                   requests, channel, replies, predictions, predicted,
                   crosstab, expVars>>

PredictReturn ==
    /\ pc = "loop"
    /\ idx > Len(split_array)
    /\ result' = [returned |-> TRUE,
                  value |-> fromstring(SliceFrom1(predictions))]
    /\ Advance("return", "threshold")
    /\ UNCHANGED <<xgb_predictor, test_df, data, rows, split_array, idx,
                   requests, channel, replies, predictions, predicted,
                   crosstab, expVars>>

\* np.where(predictions > THRESHOLD, 1, 0)
Threshold ==
    /\ pc = "threshold"
    /\ predicted' = where(result.value)
    /\ Advance("threshold", "crosstab")
    /\ UNCHANGED <<xgb_predictor, test_df, data, rows, split_array, idx,
                   requests, channel, replies, predictions, result, crosstab,
                   expVars>>

\* pd.crosstab(index=test_df.iloc[:, 0], columns=...): the columns array must
\* be as long as the index.
Crosstab ==
    /\ pc = "crosstab"
    /\ IF Len(predicted) # Len(test_df)
       THEN /\ LocalRaise("crosstab")
            /\ UNCHANGED crosstab
       ELSE /\ Advance("crosstab", "done")
            /\ crosstab' = [c \in Cells |->
                              CountCell(LabelColumn(test_df), predicted, c)]
    /\ UNCHANGED <<xgb_predictor, test_df, data, rows, split_array, idx,
                   requests, channel, replies, predictions, result, predicted,
                   expVars>>

ChurnNext ==
    \/ Setup \/ UploadTrain \/ UploadValidation \/ ReadTrain \/ Fit \/ Deploy
    \/ Configure \/ ReadTest \/ PredictCall \/ InvokeEndpoint \/ EndpointServe
    \/ EndpointFault \/ ReceiveReply \/ PredictReturn \/ Threshold \/ Crosstab

\* -------------------------------------------------- experiment workflow
Preprocessing ==
    [name |-> 0, display |-> "Preprocessing", hidden_channels |-> 0,
     dropout |-> 0, kernel_size |-> 0, accuracy |-> 0, artifact |-> 0]

\* The platform keeps a numeric hyperparameter as a float (here in tenths).
NumberValue(v) == v * 10

\* int(x) of a float in tenths
PyInt(x) == x \div 10

\* int(time.time())
Timestamp(t) == t \div TicksPerSecond

\* The trial component the platform records for training job j: its
\* hyperparameters, its test:accuracy and its output model artifact.
TrainingComponent(j, accuracy) ==
    [name |-> j, display |-> "Training",
     hidden_channels |-> NumberValue(jobs[j].hidden_channels),
     dropout |-> jobs[j].dropout,
     kernel_size |-> NumberValue(jobs[j].kernel_size),
     accuracy |-> accuracy, artifact |-> j]

\* Time passes between and during the statements of the experiment notebook.
SleepsDone == Cardinality({p \in 1..Len(trace) : trace[p] = "sleep"})

Tick ==
    /\ wf = "experiment"
    /\ pc \notin {"done", "failed"}
    /\ now - SleepsDone * SleepSeconds * TicksPerSecond < MaxTicks
    /\ now' = now + 1
    /\ UNCHANGED <<wf, pc, trace, errors, exception, churnVars, expVars>>

\* sess.client('sts').get_caller_identity()
GetCallerIdentity ==
    /\ wf = "experiment"
    /\ RemoteStep("identity", "identity", "create_bucket")
    /\ UNCHANGED <<churnVars, expVars>>

\* try: create_bucket(...) except Exception as e: print(e)
CreateBucket ==
    /\ pc = "create_bucket"
    /\ \/ /\ Advance("create_bucket", "download")
          /\ s3_bucket' = TRUE
       \/ /\ pc' = "download"
          /\ trace' = Append(trace, "create_bucket")
          /\ errors' = Append(errors, "create_bucket")
          /\ UNCHANGED <<wf, exception, now, s3_bucket>>
    /\ UNCHANGED <<churnVars, i, trials, jobs, components, dataframe, best,
                   endpoint>>

\* datasets.MNIST(..., download=True)
DownloadDataset ==
    /\ RemoteStep("download", "download", "upload_data")
    /\ UNCHANGED <<churnVars, expVars>>

\* sagemaker.Session().upload_data(...)
UploadDataCaught ==
    /\ pc = "upload_data"
    /\ \/ Advance("upload_data", "tracker")
       \/ /\ pc' = "tracker"
          /\ trace' = Append(trace, "upload_data")
          /\ errors' = Append(errors, "upload_data")
          /\ UNCHANGED <<wf, exception, now>>
    /\ UNCHANGED <<churnVars, expVars>>

UploadData ==
    /\ RemoteStep("upload_data", "upload_data", "tracker")
    /\ UNCHANGED <<churnVars, expVars>>

\* with Tracker.create(display_name="Preprocessing") as tracker: ...
TrackerCreate ==
    /\ pc = "tracker"
    /\ \/ /\ Advance("tracker", "experiment_create")
          /\ components' = components \cup {Preprocessing}
       \/ /\ Raise("tracker")
          /\ UNCHANGED components
    /\ UNCHANGED <<churnVars, s3_bucket, i, trials, jobs, dataframe, best,
                   endpoint>>

\* Experiment.create(...), then the loop starts at its first setting
ExperimentCreate ==
    /\ pc = "experiment_create"
    /\ \/ /\ Advance("experiment_create", "trial_create")
          /\ i' = 1
       \/ /\ Raise("experiment_create")
          /\ UNCHANGED i
    /\ UNCHANGED <<churnVars, s3_bucket, trials, jobs, components, dataframe,
                   best, endpoint>>

\* trial_name = f"cnn-training-job-{num_hidden_channel}-hidden-channels-
\* {int(time.time())}"; cnn_trial = Trial.create(trial_name=trial_name, ...)
TrialCreate ==
    /\ pc = "trial_create"
    /\ i <= Len(HiddenChannels)
    /\ \/ /\ Advance("trial_create", "add_component")
          /\ trials' = Append(trials, [name |-> [hc |-> HiddenChannels[i],
                                                ts |-> Timestamp(now)],
                                       components |-> {}])
       \/ /\ Raise("trial_create")
          /\ UNCHANGED trials
    /\ UNCHANGED <<churnVars, s3_bucket, i, jobs, components, dataframe, best,
                   endpoint>>

\* cnn_trial.add_trial_component(preprocessing_trial_component)
AddTrialComponentFirst ==
    /\ pc = "add_component"
    /\ \/ /\ Advance("add_component", "exp_fit")
          /\ trials' = [trials EXCEPT ![1].components = @ \cup {Preprocessing.name}]
       \/ /\ Raise("add_component")
          /\ UNCHANGED trials
    /\ UNCHANGED <<churnVars, s3_bucket, i, jobs, components, dataframe, best,
                   endpoint>>

AddTrialComponent ==
    /\ pc = "add_component"
    /\ \/ /\ Advance("add_component", "exp_fit")
          /\ trials' = [trials EXCEPT ![i].components = @ \cup {Preprocessing.name}]
       \/ /\ Raise("add_component")
          /\ UNCHANGED trials
    /\ UNCHANGED <<churnVars, s3_bucket, i, jobs, components, dataframe, best,
                   endpoint>>

\* cnn_training_job_name = "cnn-training-job-{}".format(int(time.time()));
\* estimator.fit(..., job_name=cnn_training_job_name, experiment_config=
\* {"TrialName": cnn_trial.trial_name, ...}, wait=True): the training job is
\* created with the estimator's hyperparameters ...
FitStartFirstTrial ==
    /\ pc = "exp_fit"
    /\ \/ /\ Advance("exp_fit", "fit_wait")
          /\ jobs' = Append(jobs, [name |-> Timestamp(now),
                                   trial |-> trials[1].name,
                                   hidden_channels |-> HiddenChannels[i],
                                   dropout |-> Dropout,
                                   kernel_size |-> KernelSize,
                                   status |-> "InProgress"])
       \/ /\ Raise("exp_fit")
          /\ UNCHANGED jobs
    /\ UNCHANGED <<churnVars, s3_bucket, i, trials, components, dataframe,
                   best, endpoint>>

FitStart ==
    /\ pc = "exp_fit"
    /\ \/ /\ Advance("exp_fit", "fit_wait")
          /\ jobs' = Append(jobs, [name |-> Timestamp(now),
                                   trial |-> trials[i].name,
                                   hidden_channels |-> HiddenChannels[i],
                                   dropout |-> Dropout,
                                   kernel_size |-> KernelSize,
                                   status |-> "InProgress"])
       \/ /\ Raise("exp_fit")
          /\ UNCHANGED jobs
    /\ UNCHANGED <<churnVars, s3_bucket, i, trials, components, dataframe,
                   best, endpoint>>

\* ... the platform runs it to completion, recording its trial component with
\* the test:accuracy it reached, in the trial named by the job ...
JobComplete ==
    /\ \E j \in 1..Len(jobs), a \in 1..MaxAccuracy :
        /\ jobs[j].status = "InProgress"
        /\ jobs' = [jobs EXCEPT ![j].status = "Completed"]
        /\ components' = components \cup {TrainingComponent(j, a)}
        /\ trials' = [t \in 1..Len(trials) |->
                        IF trials[t].name = jobs[j].trial
                        THEN [trials[t] EXCEPT !.components = @ \cup {j}]
                        ELSE trials[t]]
    /\ UNCHANGED <<ctlVars, churnVars, s3_bucket, i, dataframe, best, endpoint>>

JobFail ==
    /\ \E j \in 1..Len(jobs) :
        /\ jobs[j].status = "InProgress"
        /\ jobs' = [jobs EXCEPT ![j].status = "Failed"]
    /\ UNCHANGED <<ctlVars, churnVars, s3_bucket, i, trials, components,
                   dataframe, best, endpoint>>

\* ... and fit returns when the job has ended, raising if it failed.
FitReturnNoWait ==
    /\ pc = "fit_wait"
    /\ IF jobs[i].status # "Failed"
       THEN /\ pc' = "sleep"
            /\ UNCHANGED <<wf, trace, errors, exception, now>>
       ELSE /\ Propagate("exp_fit")
            /\ UNCHANGED trace
    /\ UNCHANGED <<churnVars, expVars>>

FitReturn ==
    /\ pc = "fit_wait"
    /\ jobs[i].status # "InProgress"
    /\ IF jobs[i].status = "Completed"
       THEN /\ pc' = "sleep"
            /\ UNCHANGED <<wf, trace, errors, exception, now>>
       ELSE /\ Propagate("exp_fit")
            /\ UNCHANGED trace
    /\ UNCHANGED <<churnVars, expVars>>

\* time.sleep(2), then the next setting or the end of the loop
SleepNone ==
    /\ pc = "sleep"
    /\ pc' = (IF i < Len(HiddenChannels) THEN "trial_create" ELSE "analytics")
    /\ trace' = Append(trace, "sleep")
    /\ i' = i + 1
    /\ UNCHANGED <<wf, errors, exception, now>>
    /\ UNCHANGED <<churnVars, s3_bucket, trials, jobs, components, dataframe,
                   best, endpoint>>

Sleep ==
    /\ pc = "sleep"
    /\ pc' = (IF i < Len(HiddenChannels) THEN "trial_create" ELSE "analytics")
    /\ trace' = Append(trace, "sleep")
    /\ now' = now + SleepSeconds * TicksPerSecond
    /\ i' = i + 1
    /\ UNCHANGED <<wf, errors, exception>>
    /\ UNCHANGED <<churnVars, s3_bucket, trials, jobs, components, dataframe,
                   best, endpoint>>

\* search_expression: DisplayName Equals "Training", within the experiment
InExperiment(c) == \E t \in 1..Len(trials) : c.name \in trials[t].components
Matches(c) == InExperiment(c) /\ c.display = "Training"

\* sort_by="metrics.test:accuracy.max", sort_order="Descending"
Ascending(a, b) == a.accuracy <= b.accuracy
Descending(a, b) == a.accuracy >= b.accuracy

\* The orders in which the search may return the set S of components.
Sorted(S) ==
    {s \in [1..Cardinality(S) -> S] :
        /\ \A x, y \in 1..Cardinality(S) : x # y => s[x] # s[y]
        /\ \A x, y \in 1..Cardinality(S) : x < y => Descending(s[x], s[y])}

\* trial_component_analytics = ExperimentAnalytics(...); .dataframe()
Analytics ==
    /\ pc = "analytics"
    /\ \/ /\ Advance("analytics", "lineage")
          /\ dataframe' \in Sorted({c \in components : Matches(c)})
       \/ /\ Raise("analytics")
          /\ UNCHANGED dataframe
    /\ UNCHANGED <<churnVars, s3_bucket, i, trials, jobs, components, best,
                   endpoint>>

\* lineage_table = ExperimentAnalytics(...); .dataframe()
Lineage ==
    /\ RemoteStep("lineage", "lineage", "load_best")
    /\ UNCHANGED <<churnVars, expVars>>

\* best_trial_component_name = ....dataframe().iloc[0]['TrialComponentName']
BestRowLast(df) == df[Len(df)].name
BestRow(df) == df[1].name

\* TrialComponent.load(name)
Load(name) == CHOOSE c \in components : c.name = name

\* best_trial_component, model_data and env: str(int(...)) of the
\* hidden_channels and kernel_size parameters (whole numbers), str(...) of
\* dropout (tenths).  A string of digits is kept as the number it spells.
LoadBest ==
    /\ pc = "load_best"
    /\ IF dataframe = <<>>
       THEN /\ LocalRaise("load_best")
            /\ UNCHANGED best
       ELSE \/ /\ Advance("load_best", "create_model")
               /\ LET c == Load(BestRow(dataframe))
                  IN  best' = [name |-> c.name,
                               model_data |-> c.artifact,
                               env |-> [hidden_channels |-> PyInt(c.hidden_channels),
                                        dropout |-> c.dropout,
                                        kernel_size |-> PyInt(c.kernel_size)]]
            \/ /\ Raise("load_best")
               /\ UNCHANGED best
    /\ UNCHANGED <<churnVars, s3_bucket, i, trials, jobs, components, dataframe,
                   endpoint>>

\* model = PyTorchModel(model_data, ..., env=env, name=...)
CreateModel ==
    /\ pc = "create_model"
    /\ Advance("create_model", "deploy_model")
    /\ UNCHANGED <<churnVars, expVars>>

\* predictor = model.deploy(...)
DeployModel ==
    /\ pc = "deploy_model"
    /\ \/ /\ Advance("deploy_model", "done")
          /\ endpoint' = [deployed |-> TRUE, name |-> best.name,
                          model_data |-> best.model_data, env |-> best.env]
       \/ /\ Raise("deploy_model")
          /\ UNCHANGED endpoint
    /\ UNCHANGED <<churnVars, s3_bucket, i, trials, jobs, components, dataframe,
                   best>>

ExperimentNext ==
    \/ Tick \/ GetCallerIdentity \/ CreateBucket \/ DownloadDataset \/ UploadData
    \/ TrackerCreate \/ ExperimentCreate \/ TrialCreate \/ AddTrialComponent
    \/ FitStart \/ JobComplete \/ JobFail \/ FitReturn \/ Sleep \/ Analytics
    \/ Lineage \/ LoadBest \/ CreateModel \/ DeployModel

\* ------------------------------------------------------- specification
NoEnv == [hidden_channels |-> 0, dropout |-> 0, kernel_size |-> 0]

Init ==
    /\ wf \in {"churn", "experiment"}
    /\ pc = IF wf = "churn" THEN "setup" ELSE "identity"
    /\ trace = <<>>
    /\ errors = <<>>
    /\ exception = "none"
    /\ now = 0
    /\ xgb_predictor = [endpoint |-> "none", content_type |-> "none",
                        serializer |-> "none"]
    /\ test_df = <<>>
    /\ data = <<>>
    /\ rows = 0
    /\ split_array = <<>>
    /\ idx = 0
    /\ requests = <<>>
    /\ channel = <<>>
    /\ replies = <<>>
    /\ predictions = <<>>
    /\ result = [returned |-> FALSE, value |-> <<>>]
    /\ predicted = <<>>
    /\ crosstab = EmptyTable
    /\ s3_bucket = FALSE
    /\ i = 0
    /\ trials = <<>>
    /\ jobs = <<>>
    /\ components = {}
    /\ dataframe = <<>>
    /\ best = [name |-> 0, model_data |-> 0, env |-> NoEnv]
    /\ endpoint = [deployed |-> FALSE, name |-> 0, model_data |-> 0,
                   env |-> NoEnv]

Next == ChurnNext \/ ExperimentNext

Spec == Init /\ [][Next]_vars

\* ------------------------------------------------------------- claims
InPredict == wf = "churn" /\ pc \in {"loop", "await"}
AfterThreshold == wf = "churn" /\ pc \in {"crosstab", "done"}
InvokeFailed == \E e \in 1..Len(errors) : errors[e] = "invoke"
BestLoaded == wf = "experiment" /\ pc \in {"create_model", "deploy_model", "done"}

\* The numbers of a CSV string, in the order they stand in it.
RECURSIVE Numbers(_)
Numbers(s) ==
    IF s = <<>> THEN <<>>
    ELSE IF Head(s).t = "num" THEN <<Head(s).v>> \o Numbers(Tail(s))
    ELSE Numbers(Tail(s))

\* C1: for every row count n >= 0 and every rows >= 1, with an endpoint that
\* returns one score per row of each request, the sequence predict returns is
\* as long as its input.
C1_LengthEqualsRowCount ==
    result.returned => (rows >= 1 /\ Len(result.value) = Len(data))

C1_Witness ==
    /\ result.returned
    /\ Len(data) >= 3
    /\ Len(split_array) >= 2

\* C2: the i-th element predict returns is the score the endpoint produced for
\* the i-th input row, across chunk boundaries.
C2_RowOrderPreserved ==
    result.returned =>
        /\ Len(result.value) >= Len(data)
        /\ \A r \in 1..Len(data) : result.value[r] = ModelScore(data[r])

C2_Witness ==
    /\ result.returned
    /\ Len(requests) >= 2
    /\ Len(requests[1]) >= 1
    /\ Len(requests[2]) >= 1
    /\ ModelScore(data[1]) # ModelScore(data[Len(data)])

\* C3: the chunks submitted to the endpoint, concatenated in the order they
\* are submitted, are the input rows: the requests are the chunks of
\* split_array in order, each once, and when predict returns they hold every
\* input row exactly once, in input order.
C3_ChunksPartitionInput ==
    /\ Len(requests) <= Len(split_array)
    /\ requests = SubSeq(split_array, 1, Len(requests))
    /\ Flatten(requests) = SubSeq(data, 1, Len(Flatten(requests)))
    /\ result.returned => Flatten(requests) = data

C3_Witness ==
    /\ result.returned
    /\ Len(data) >= 3
    /\ Len(requests) >= 2
    /\ Len(requests[1]) >= 2

\* C4: every chunk submitted to the endpoint holds at most rows rows, also
\* when n is an exact multiple of rows.
C4_ChunkAtMostRows ==
    \A j \in 1..Len(requests) : Len(requests[j]) <= rows

C4_Witness ==
    /\ result.returned
    /\ rows >= 2
    /\ Len(data) = 2 * rows
    /\ \E j \in 1..Len(requests) : Len(requests[j]) = rows

\* C5: at most one inference request is outstanding at any time; chunk i+1
\* is requested only after the response to chunk i was received, and the
\* responses are accumulated in the order the chunks were issued.
C5_OneOutstandingRequest ==
    /\ Len(channel) + Len(replies) <= 1
    /\ InPredict =>
        /\ Len(requests) <= idx
        /\ Len(channel) + Len(replies) = (IF pc = "await" THEN 1 ELSE 0)
        /\ Numbers(predictions) = Scores(Flatten(SubSeq(requests, 1, idx - 1)))

C5_Witness ==
    /\ pc = "await"
    /\ Len(requests) >= 2
    /\ Len(replies) = 1
    /\ Numbers(predictions) # <<>>

\* C6: if the remote call for a chunk fails, predict fails with that fault:
\* the failed request is the last one submitted and was submitted once, no
\* later chunk is submitted and nothing is returned.
C6_FaultPropagates ==
    InvokeFailed =>
        /\ pc = "failed"
        /\ exception = "invoke"
        /\ ~result.returned
        /\ Len(errors) = 1
        /\ Len(requests) = idx
        /\ requests = SubSeq(split_array, 1, idx)
        /\ channel = <<>>
        /\ replies = <<>>

C6_Witness ==
    /\ InvokeFailed
    /\ idx >= 2
    /\ idx < Len(split_array)
    /\ Numbers(predictions) # <<>>

\* C7: thresholding maps every score to a label in {0, 1}, 1 exactly when the
\* score is strictly above THRESHOLD; a score equal to THRESHOLD yields 0.
C7_ThresholdStrict ==
    AfterThreshold =>
        /\ Len(predicted) = Len(result.value)
        /\ \A r \in 1..Len(predicted) :
            /\ predicted[r] \in {0, 1}
            /\ predicted[r] = 1 <=> result.value[r] > THRESHOLD
            /\ result.value[r] = THRESHOLD => predicted[r] = 0

C7_Witness ==
    /\ AfterThreshold
    /\ \E r \in 1..Len(predicted) : result.value[r] = THRESHOLD /\ predicted[r] = 0
    /\ \E r \in 1..Len(predicted) : result.value[r] > THRESHOLD /\ predicted[r] = 1
    /\ \E r \in 1..Len(predicted) : result.value[r] < THRESHOLD /\ predicted[r] = 0

\* C8: the confusion matrix is built for every table predict scored, and its
\* cell counts sum to the number of test rows.
C8_CrosstabCountsAllRows ==
    /\ exception # "crosstab"
    /\ (wf = "churn" /\ pc = "done") => SumOver(crosstab, Cells) = Len(test_df)

C8_Witness ==
    /\ wf = "churn"
    /\ pc = "done"
    /\ Len(test_df) >= 3
    /\ Cardinality({c \in Cells : crosstab[c] > 0}) >= 2

\* C9: the analytics query sorted by test:accuracy (max) in descending order
\* has the maximum first: the trial component taken from row 0 as the best has
\* a test:accuracy no lower than every Training trial component of the
\* experiment.
C9_BestIsMaximum ==
    /\ dataframe # <<>> =>
        \A c \in components : Matches(c) => dataframe[1].accuracy >= c.accuracy
    /\ BestLoaded =>
        /\ Matches(Load(best.name))
        /\ \A c \in components :
            Matches(c) => Load(best.name).accuracy >= c.accuracy

C9_Witness ==
    /\ BestLoaded
    /\ best.name = Len(HiddenChannels)
    /\ \E c \in components : Matches(c) /\ c.accuracy < Load(best.name).accuracy

\* C10 as stated: whenever a remote call fails, the workflow stops at that
\* step and no later step is executed, the bucket creation included.
C10_EveryFaultStops ==
    \A e \in 1..Len(errors) :
        /\ pc = "failed"
        /\ exception = errors[e]
        /\ Last(trace) = errors[e]

\* C10, amended: whenever a remote call other than the bucket creation fails,
\* the workflow stops at that step and no later step is executed; a failure
\* of the bucket creation is caught and the workflow goes on.
C10_FaultStopsExceptBucket ==
    \A e \in 1..Len(errors) :
        errors[e] # "create_bucket" =>
            /\ pc = "failed"
            /\ exception = errors[e]
            /\ Last(trace) = errors[e]
            /\ e = Len(errors)

C10_Witness ==
    /\ Len(errors) = 2
    /\ errors[1] = "create_bucket"
    /\ errors[2] = "exp_fit"
    /\ Len(jobs) = 2

\* The place of a step's first execution in trace, 0 if it has not run.
Pos(step) ==
    IF \E p \in 1..Len(trace) : trace[p] = step
    THEN CHOOSE p \in 1..Len(trace) :
            trace[p] = step /\ \A q \in 1..(p - 1) : trace[q] # step
    ELSE 0

Before(a, b) == Pos(b) > 0 => (Pos(a) > 0 /\ Pos(a) < Pos(b))

\* C11: the churn workflow runs in one fixed order: the training data is
\* uploaded before the training job is launched, the endpoint is deployed only
\* after the training job has completed, every inference request is sent only
\* after the endpoint is deployed, and thresholding and the confusion matrix
\* come only after the scores of all chunks have been reassembled.
C11_ChurnStepOrder ==
    wf = "churn" =>
        /\ Before("upload_train", "fit")
        /\ Before("upload_validation", "fit")
        /\ Before("fit", "deploy")
        /\ Before("deploy", "invoke")
        /\ requests # <<>> => xgb_predictor.endpoint # "none"
        /\ Before("return", "threshold")
        /\ Before("threshold", "crosstab")
        /\ Pos("threshold") > 0 =>
            /\ result.returned
            /\ requests = split_array
            /\ channel = <<>> /\ replies = <<>>
            /\ \A p \in Pos("threshold")..Len(trace) : trace[p] # "invoke"

C11_Witness ==
    /\ wf = "churn"
    /\ pc = "done"
    /\ Len(requests) >= 3
    /\ Len(test_df) >= 2

LoopDone ==
    /\ wf = "experiment"
    /\ pc \in {"analytics", "lineage", "load_best", "create_model",
               "deploy_model", "done"}

\* C12: for each setting of [2, 5, 10], in list order, exactly one trial is
\* created and exactly one training job launched; the job is associated with
\* the trial of its own iteration and trained with that setting, and no trial
\* receives the job of another setting.
C12_OneTrialOneJobPerSetting ==
    /\ Len(trials) <= Len(HiddenChannels)
    /\ Len(jobs) <= Len(trials)
    /\ Len(trials) <= Len(jobs) + 1
    /\ \A t \in 1..Len(trials) : trials[t].name.hc = HiddenChannels[t]
    /\ \A j \in 1..Len(jobs) :
        /\ jobs[j].hidden_channels = HiddenChannels[j]
        /\ jobs[j].trial = trials[j].name
    /\ \A c \in components :
        c.display = "Training" =>
            \A t \in 1..Len(trials) : c.name \in trials[t].components <=> t = c.name
    /\ LoopDone =>
        /\ Len(trials) = Len(HiddenChannels)
        /\ Len(jobs) = Len(HiddenChannels)

C12_Witness ==
    /\ LoopDone
    /\ \A t \in 1..Len(trials) : t \in trials[t].components

\* C13: the model deployed as the endpoint is the output artifact of the best
\* trial component (row 0 of the sorted query) and its environment carries
\* that component's hidden_channels, dropout and kernel_size; no artifact or
\* parameter of another trial is used.
C13_DeploysBestComponent ==
    endpoint.deployed =>
        LET c == Load(dataframe[1].name)
        IN  /\ endpoint.name = c.name
            /\ endpoint.model_data = c.artifact
            /\ NumberValue(endpoint.env.hidden_channels) = c.hidden_channels
            /\ endpoint.env.dropout = c.dropout
            /\ NumberValue(endpoint.env.kernel_size) = c.kernel_size
            /\ endpoint.env.hidden_channels = jobs[c.name].hidden_channels
            /\ \A o \in components :
                (Matches(o) /\ o.name # c.name) =>
                    /\ endpoint.model_data # o.artifact
                    /\ NumberValue(endpoint.env.hidden_channels) # o.hidden_channels

C13_Witness ==
    /\ endpoint.deployed
    /\ endpoint.env.hidden_channels = HiddenChannels[2]
    /\ \A o \in components :
        (Matches(o) /\ o.name # endpoint.name) =>
            o.accuracy < Load(endpoint.name).accuracy

\* C14: the training jobs run strictly one after another: the trial and the
\* job of setting k+1 are created only after the job of setting k has
\* finished, so at most one training job is running at any time.
C14_JobsSequential ==
    /\ Cardinality({j \in 1..Len(jobs) : jobs[j].status = "InProgress"}) <= 1
    /\ \A j \in 1..(Len(jobs) - 1) : jobs[j].status = "Completed"
    /\ \A t \in 2..Len(trials) :
        /\ Len(jobs) >= t - 1
        /\ jobs[t - 1].status = "Completed"

C14_Witness ==
    /\ Len(jobs) = Len(HiddenChannels)
    /\ jobs[Len(jobs)].status = "InProgress"

\* C15: the single preprocessing trial component is added to every trial of
\* the loop, in each iteration after the trial is created and before the
\* trial's training job is launched.
C15_PreprocessingInEveryTrial ==
    /\ Cardinality({c \in components : c.display = "Preprocessing"}) <= 1
    /\ \A j \in 1..Len(jobs) : Preprocessing.name \in trials[j].components
    /\ \A p \in 1..Len(trace) :
        /\ trace[p] = "add_component" => (p > 1 /\ trace[p - 1] = "trial_create")
        /\ trace[p] = "exp_fit" => (p > 1 /\ trace[p - 1] = "add_component")
    /\ LoopDone =>
        /\ Preprocessing \in components
        /\ \A t \in 1..Len(HiddenChannels) :
            Preprocessing.name \in trials[t].components

C15_Witness ==
    /\ pc = "exp_fit"
    /\ i = Len(HiddenChannels)
    /\ Preprocessing.name \in trials[i].components
    /\ Len(jobs) = i - 1

\* C16: predict changes nothing but its own accumulation of results: its
\* input feature matrix, the test table and the predictor's configuration
\* are after every step of the call what they were before it, whether the
\* call succeeds or fails.
C16_PredictFrame ==
    [][(wf = "churn" /\ pc \in {"predict", "loop", "await"}) =>
        /\ xgb_predictor' = xgb_predictor
        /\ test_df' = test_df
        /\ FeatureColumns(test_df') = data'
        /\ pc # "predict" => data' = data]_vars

C16_Witness ==
    /\ wf = "churn"
    /\ pc = "failed"
    /\ exception = "invoke"
    /\ Len(requests) >= 2
    /\ data = FeatureColumns(test_df)
    /\ xgb_predictor.serializer = "csv_serializer"

\* C17: a successful predict call issues exactly floor(n / rows) + 1 requests
\* (one more than ceil(n / rows) when n is a multiple of rows) and then ends.
C17_RequestCount ==
    result.returned =>
        /\ Len(requests) = (Len(data) \div rows) + 1
        /\ channel = <<>>
        /\ replies = <<>>

C17_Witness ==
    /\ result.returned
    /\ rows >= 2
    /\ Len(data) = rows
    /\ Len(requests) = 2

\* C18: predict submits no empty chunk when n >= 1 and rows >= 2; it submits
\* exactly one when n = 0 or rows = 1, and that one is the last request.
C18_EmptyChunk ==
    LET empty == {j \in 1..Len(requests) : requests[j] = <<>>}
    IN  /\ (Len(data) >= 1 /\ rows >= 2) => empty = {}
        /\ \A j \in empty : j = Len(split_array)
        /\ (result.returned /\ (Len(data) = 0 \/ rows = 1)) =>
            empty = {Len(requests)}

C18_Witness ==
    /\ result.returned
    /\ rows = 1
    /\ Len(data) >= 2
    /\ requests[Len(requests)] = <<>>

\* C19: row r of the confusion-matrix input pairs the label of test row r with
\* the prediction for the features of the same row; the payloads hold the
\* feature columns only, never the label column.
C19_LabelPairedWithOwnPrediction ==
    /\ wf = "churn" =>
        LET sent == Flatten(requests)
        IN  /\ Len(sent) <= Len(test_df)
            /\ \A r \in 1..Len(sent) : sent[r] = test_df[r].features
    /\ AfterThreshold =>
        /\ Len(predicted) = Len(test_df)
        /\ \A r \in 1..Len(test_df) :
            predicted[r] = Above(ModelScore(test_df[r].features))
    /\ (wf = "churn" /\ pc = "done") =>
        \A c \in Cells :
            crosstab[c] = Cardinality({r \in 1..Len(test_df) :
                /\ test_df[r].label = c[1]
                /\ Above(ModelScore(test_df[r].features)) = c[2]})

C19_Witness ==
    /\ wf = "churn"
    /\ pc = "done"
    /\ Len(requests) >= 3
    /\ crosstab[<<0, 1>>] >= 1
    /\ crosstab[<<1, 0>>] >= 1
    /\ test_df[1].label # test_df[Len(test_df)].label

\* C20: the training job names and the trial names of the loop iterations
\* are pairwise distinct: each iteration sleeps 2 seconds after its job, so
\* the whole-second timestamps of two iterations differ.
C20_NamesDistinct ==
    /\ \A a, b \in 1..Len(jobs) : a # b => jobs[a].name # jobs[b].name
    /\ \A a, b \in 1..Len(trials) :
        a # b => (trials[a].name # trials[b].name
                  /\ trials[a].name.ts # trials[b].name.ts)

C20_Witness ==
    /\ Len(jobs) = Len(HiddenChannels)
    /\ jobs[2].name = jobs[1].name + SleepSeconds
    /\ trials[3].name.ts = jobs[3].name
    /\ jobs[1].name > trials[1].name.ts

\* C21: predict called with rows = 0 fails with an error before any request
\* is submitted to the endpoint, and returns no scores.
C21_RowsZeroFails ==
    (wf = "churn" /\ Pos("predict") > 0 /\ rows = 0) =>
        /\ pc = "failed"
        /\ exception = "predict"
        /\ Last(trace) = "predict"
        /\ errors = <<>>
        /\ requests = <<>>
        /\ channel = <<>>
        /\ replies = <<>>
        /\ split_array = <<>>
        /\ ~result.returned
        /\ result.value = <<>>

C21_Witness ==
    /\ wf = "churn"
    /\ exception = "predict"
    /\ rows = 0
    /\ Len(data) >= 2
    /\ xgb_predictor.endpoint # "none"

====
